---- MODULE Spec2Model ----
(***************************************************************************)
(* Model of src/scrape_bsky.py: the text enrichment of one Bluesky post.   *)
(*                                                                         *)
(* A text is a TLA+ string; the functions of the source that look at       *)
(* characters (str.lower, str.strip, str.istitle, re.search, the `in`      *)
(* substring test) are computed on the tuple of its one-character strings. *)
(* Offsets are Python's: 0-based, a slice [a:b] holds characters a..b-1.   *)
(***************************************************************************)
EXTENDS Integers, Sequences, FiniteSets, TLC

VARIABLES
    pc,               \* position of get_user_posts in the body of its for loop
    post,             \* the feed item being processed: text, link_title, link_description
    text_doc,         \* self.nlp(post_text): the entities the recognizer returned
    link_doc,         \* self.nlp(link_text)
    text_locations,   \* post_data["text_locations"]
    text_persons,     \* post_data["text_persons"]
    link_locations,   \* post_data["link_locations"]
    link_persons,     \* post_data["link_persons"]
    all_locations,    \* post_data["all_locations"]
    all_persons,      \* post_data["all_persons"]
    nlp_calls,        \* number of times self.nlp was invoked
    arg,              \* the text argument of a direct call of the extractor
    doc,              \* self.nlp(arg) of that call
    ret,              \* what that call returned: locations, persons
    nlp_model,        \* self.nlp of the LocationExtractor: unloaded, loaded or failed
    location_extractor, \* the LocationExtractor object: none or constructed
    scraper,          \* the BlueskyPostScraper object: none or constructed
    authenticated,    \* self.authenticated
    limit,            \* the limit argument of get_user_posts: <<>> for None, <<n>> for n
    posts,            \* the list posts of get_user_posts
    posts_fetched,    \* its counter posts_fetched
    page_count,       \* its counter page_count
    cursor,           \* its variable cursor
    request,          \* the arguments of the last get_author_feed call
    response,         \* the page that call returned: feed, cursor
    feed_pos,         \* the position of the for loop in response.feed
    served            \* the feed source: how many posts of the timeline it has served

\* the objects constructed at start-up and the state of get_user_posts' loop
scraper_vars == <<nlp_model, location_extractor, scraper, authenticated, limit,
                  posts, posts_fetched, page_count, cursor, request, response,
                  feed_pos, served>>

vars == <<pc, post, text_doc, link_doc, text_locations, text_persons,
          link_locations, link_persons, all_locations, all_persons, nlp_calls,
          arg, doc, ret, scraper_vars>>

(***************************************************************************)
(* Characters and Python's str methods                                     *)
(***************************************************************************)
UpperAlpha == "ABCDEFGHIJKLMNOPQRSTUVWXYZ"
LowerAlpha == "abcdefghijklmnopqrstuvwxyz"
DigitChars == "0123456789"

Chars(str) == [i \in 1..Len(str) |-> SubSeq(str, i, i)]

UpperSet == {SubSeq(UpperAlpha, i, i) : i \in 1..Len(UpperAlpha)}
LowerSet == {SubSeq(LowerAlpha, i, i) : i \in 1..Len(LowerAlpha)}
DigitSet == {SubSeq(DigitChars, i, i) : i \in 1..Len(DigitChars)}
SpaceSet == {" "}

LowerMap ==
    [c \in UpperSet |->
        LET i == CHOOSE j \in 1..Len(UpperAlpha) : SubSeq(UpperAlpha, j, j) = c
        IN  SubSeq(LowerAlpha, i, i)]

\* str.lower(), one character
LowerCh(c) == IF c \in UpperSet THEN LowerMap[c] ELSE c

\* str.lower()
Lower(cs) == [i \in 1..Len(cs) |-> LowerCh(cs[i])]

\* the string of a tuple of characters
RECURSIVE Str(_)
Str(cs) ==
    IF Len(cs) = 0 THEN ""
    ELSE IF Len(cs) = 1 THEN cs[1]
    ELSE LET half == Len(cs) \div 2
         IN  Str(SubSeq(cs, 1, half)) \o Str(SubSeq(cs, half + 1, Len(cs)))

\* Python's slice cs[a:b] for 0 <= a, b <= len(cs)
Slice(cs, a, b) == SubSeq(cs, a + 1, b)

Min(a, b) == IF a < b THEN a ELSE b
Max(a, b) == IF a > b THEN a ELSE b

\* str.strip(): leading and trailing whitespace removed
Strip(cs) ==
    LET ink == {i \in 1..Len(cs) : cs[i] \notin SpaceSet}
    IN  IF ink = {} THEN <<>>
        ELSE SubSeq(cs, CHOOSE i \in ink : \A j \in ink : i <= j,
                        CHOOSE i \in ink : \A j \in ink : i >= j)

\* str.isdigit(): non-empty and digits only
IsDigit(cs) == Len(cs) > 0 /\ \A i \in 1..Len(cs) : cs[i] \in DigitSet

IsCased(c) == c \in UpperSet \/ c \in LowerSet

\* str.istitle(): an uppercase character only after an uncased one, a lowercase
\* character only after a cased one, and at least one cased character
IsTitle(cs) ==
    /\ \E i \in 1..Len(cs) : IsCased(cs[i])
    /\ \A i \in 1..Len(cs) :
          /\ cs[i] \in UpperSet => ~(i > 1 /\ IsCased(cs[i - 1]))
          /\ cs[i] \in LowerSet => (i > 1 /\ IsCased(cs[i - 1]))

\* len(s.split()): the number of maximal runs of non-whitespace characters
SplitCount(cs) ==
    Cardinality({i \in 1..Len(cs) :
                    /\ cs[i] \notin SpaceSet
                    /\ (i = 1 \/ cs[i - 1] \in SpaceSet)})

\* sub occurs in cs at 1-based position i
LitAt(sub, cs, i) ==
    /\ i + Len(sub) - 1 <= Len(cs)
    /\ \A k \in 1..Len(sub) : cs[i + k - 1] = sub[k]

\* Python's `sub in cs`
Contains(sub, cs) == \E i \in 1..(Len(cs) + 1) : LitAt(sub, cs, i)

(***************************************************************************)
(* Regular expressions (module re), as far as the patterns of the source   *)
(* use them.  A pattern is a tuple of elements.                            *)
(***************************************************************************)
B == [k |-> "b"]                                       \* \b
LitCs(cs) == [k |-> "lit", cs |-> cs]                  \* re.escape(cs)
Lit(str) == LitCs(Chars(str))                          \* literal text
Alt(res) == [k |-> "alt", alts |-> res]                \* (?:r1|r2|...)
Opt(re) == [k |-> "alt", alts |-> {re, <<>>}]          \* (?:re)?
Rep(cls, lo, hi) == [k |-> "rep", cls |-> cls, lo |-> lo, hi |-> hi] \* cls{lo,hi}
Plus(cls) == [k |-> "plus", cls |-> cls]               \* cls+
Star(cls) == [k |-> "star", cls |-> cls]               \* cls*
Many(re) == [k |-> "many", re |-> re]                  \* (?:re)+

\* \w
IsWordCh(c) == c \in UpperSet \/ c \in LowerSet \/ c \in DigitSet \/ c = "_"

\* character classes: \s, \d, [A-Z] under re.IGNORECASE, [^)]
InClass(cls, c) ==
    CASE cls = "space"     -> c \in SpaceSet
      [] cls = "digit"     -> c \in DigitSet
      [] cls = "letter"    -> c \in UpperSet \/ c \in LowerSet
      [] cls = "notrparen" -> c # ")"

\* \b before the character at 1-based position i (i = Len+1: at the end)
BoundaryAt(cs, i) ==
    LET before == i > 1 /\ IsWordCh(cs[i - 1])
        after  == i <= Len(cs) /\ IsWordCh(cs[i])
    IN  before # after

\* the positions j >= i such that cs[i..j-1] are all of class cls
RunEnds(cls, cs, i) ==
    {j \in i..(Len(cs) + 1) : \A p \in i..(j - 1) : InClass(cls, cs[p])}

\* the positions after a match of pattern re that starts at position i
RECURSIVE Ends(_, _, _)
RECURSIVE ManyEnds(_, _, _)
Ends(re, cs, i) ==
    IF re = <<>> THEN {i}
    ELSE LET e == Head(re)
             first ==
                CASE e.k = "b"    -> IF BoundaryAt(cs, i) THEN {i} ELSE {}
                  [] e.k = "lit"  -> IF LitAt(e.cs, cs, i) THEN {i + Len(e.cs)} ELSE {}
                  [] e.k = "alt"  -> UNION {Ends(a, cs, i) : a \in e.alts}
                  [] e.k = "rep"  -> {j \in RunEnds(e.cls, cs, i) :
                                          j >= i + e.lo /\ j <= i + e.hi}
                  [] e.k = "plus" -> RunEnds(e.cls, cs, i) \ {i}
                  [] e.k = "star" -> RunEnds(e.cls, cs, i)
                  [] e.k = "many" -> ManyEnds(e.re, cs, i)
         IN  UNION {Ends(Tail(re), cs, j) : j \in first}

\* the positions after one or more consecutive matches of re from position i
ManyEnds(re, cs, i) ==
    LET once == Ends(re, cs, i)
    IN  once \cup UNION {ManyEnds(re, cs, j) : j \in once \ {i}}

\* re.search(re, cs) finds a match
Search(re, cs) == \E i \in 1..(Len(cs) + 1) : Ends(re, cs, i) # {}

\* the start (1-based) of the leftmost match; only used when Search(re, cs)
SearchStart(re, cs) ==
    CHOOSE i \in 1..(Len(cs) + 1) :
        /\ Ends(re, cs, i) # {}
        /\ \A j \in 1..(i - 1) : Ends(re, cs, j) = {}

(***************************************************************************)
(* LocationExtractor.__init__: the gazetteer                               *)
(***************************************************************************)
uk_cities ==
    {"london", "birmingham", "manchester", "glasgow", "liverpool", "leeds",
     "sheffield", "edinburgh", "bristol", "cardiff", "belfast", "newcastle",
     "leicester", "coventry", "bradford", "nottingham", "hull", "plymouth",
     "stoke-on-trent", "wolverhampton", "derby", "southampton", "portsmouth",
     "brighton", "aberdeen", "northampton", "norwich", "luton", "solihull",
     "sunderland", "poole", "milton keynes", "slough", "bournemouth", "reading",
     "peterborough", "warrington", "stockport", "rochdale", "rotherham", "oldham",
     "blackpool", "middlesbrough", "huddersfield", "oxford", "cambridge", "ipswich",
     "york", "gloucester", "watford", "chester", "exeter", "doncaster", "crawley",
     "blackburn", "basildon", "burnley", "bolton", "gillingham", "maidstone",
     "high wycombe", "worthing", "southend-on-sea", "chelmsford", "colchester",
     "preston", "st albans", "harrogate", "eastbourne", "grimsby", "bath",
     "worcester", "scunthorpe", "stevenage", "hemel hempstead", "basingstoke"}

uk_counties ==
    {"yorkshire", "lancashire", "devon", "cornwall", "dorset", "somerset", "kent",
     "sussex", "surrey", "essex", "hampshire", "berkshire", "oxfordshire",
     "buckinghamshire", "hertfordshire", "bedfordshire", "cambridgeshire", "suffolk",
     "norfolk", "lincolnshire", "nottinghamshire", "leicestershire", "warwickshire",
     "northamptonshire", "gloucestershire", "wiltshire", "worcestershire",
     "herefordshire", "shropshire", "staffordshire", "derbyshire", "cheshire",
     "merseyside", "greater manchester", "west yorkshire", "south yorkshire",
     "east yorkshire", "north yorkshire", "west midlands", "east midlands",
     "south west", "south east", "north west", "north east", "wales", "scotland",
     "northern ireland", "cumbria", "northumberland", "durham", "tyne and wear",
     "cleveland", "avon", "humberside"}

\* the entries as tuples of characters
uk_cities_cs == {Chars(g) : g \in uk_cities}
uk_counties_cs == {Chars(g) : g \in uk_counties}

(***************************************************************************)
(* LocationExtractor._extract_person_role                                  *)
(***************************************************************************)
\* the radius of the context window, in characters
ContextRadius == 100

\* the role table for a lower-cased name p, in the order of the source
role_patterns(p) ==
    LET WS == Plus("space")
        NP == Star("notrparen")
        Name == LitCs(p)
    IN << \* MP patterns
          [re |-> <<B, Alt({<<Lit("mp")>>, <<Lit("member of parliament")>>}), WS, Name>>,
           role |-> "MP"],
          [re |-> <<B, Name, WS, Alt({<<Lit("mp")>>, <<Lit("member of parliament")>>}), B>>,
           role |-> "MP"],
          [re |-> <<B, Name, WS, Lit("("), NP, Lit("mp"), NP, Lit(")")>>,
           role |-> "MP"],
          \* Councillor patterns
          [re |-> <<B, Lit("councillor"), WS, Name>>, role |-> "Councillor"],
          [re |-> <<B, Lit("cllr"), WS, Name>>, role |-> "Councillor"],
          [re |-> <<B, Name, WS, Alt({<<Lit("councillor")>>, <<Lit("cllr")>>}), B>>,
           role |-> "Councillor"],
          [re |-> <<B, Name, WS, Lit("("), NP, Lit("councillor"), NP, Lit(")")>>,
           role |-> "Councillor"],
          [re |-> <<B, Name, WS, Lit("("), NP, Lit("cllr"), NP, Lit(")")>>,
           role |-> "Councillor"],
          \* Candidate patterns
          [re |-> <<B, Lit("candidate"), WS, Name>>, role |-> "Candidate"],
          [re |-> <<B, Name, WS, Lit("candidate"), B>>, role |-> "Candidate"],
          [re |-> <<B, Name, WS, Lit("("), NP, Lit("candidate"), NP, Lit(")")>>,
           role |-> "Candidate"],
          [re |-> <<B, Lit("prospective"), WS, Opt(<<Lit("mp"), WS>>),
                    Lit("candidate"), WS, Name>>,
           role |-> "Candidate"],
          [re |-> <<B, Name, WS,
                    Alt({<<Lit("stands")>>, <<Lit("standing")>>,
                         <<Lit("runs")>>, <<Lit("running")>>}),
                    WS, Alt({<<Lit("for")>>, <<Lit("as")>>})>>,
           role |-> "Candidate"],
          \* Leader/Deputy patterns
          [re |-> <<B, Lit("leader"), WS, Name>>, role |-> "Leader"],
          [re |-> <<B, Name, WS, Lit("leader"), B>>, role |-> "Leader"],
          [re |-> <<B, Lit("deputy"), WS, Lit("leader"), WS, Name>>,
           role |-> "Deputy Leader"],
          [re |-> <<B, Name, WS, Lit("deputy"), WS, Lit("leader"), B>>,
           role |-> "Deputy Leader"] >>

political_keywords ==
    <<"reform uk", "reform party", "election", "constituency", "council",
      "government", "political", "parliament">>

\* a variant of context_window that takes the whole text
context_whole_text(full_text, start_pos, end_pos) == Lower(full_text)

\* full_text[context_start:context_end].lower()
context_window(full_text, start_pos, end_pos) ==
    LET context_start == Max(0, start_pos - ContextRadius)
        context_end   == Min(Len(full_text), end_pos + ContextRadius)
    IN  Lower(Slice(full_text, context_start, context_end))

\* the indices of the role patterns that match the context
matching_patterns(person_lower, context) ==
    {i \in 1..Len(role_patterns(person_lower)) :
        Search(role_patterns(person_lower)[i].re, context)}

\* any(keyword in context for keyword in political_keywords)
has_political_keyword(context) ==
    \E k \in 1..Len(political_keywords) : Contains(Chars(political_keywords[k]), context)

\* a variant of first_matching_role in which the last matching pattern wins
last_matching_role(person_lower, context) ==
    LET hits == matching_patterns(person_lower, context)
    IN  IF hits = {} THEN "none"
        ELSE role_patterns(person_lower)[CHOOSE i \in hits : \A j \in hits : j <= i].role

\* for pattern, role in role_patterns: if re.search(...): return role
first_matching_role(person_lower, context) ==
    LET hits == matching_patterns(person_lower, context)
    IN  IF hits = {} THEN "none"
        ELSE role_patterns(person_lower)[CHOOSE i \in hits : \A j \in hits : i <= j].role

\* a variant of extract_person_role that looks for the keywords before the
\* role patterns
extract_person_role_keywords_first(person_name, full_text, start_pos, end_pos) ==
    LET context == context_window(full_text, start_pos, end_pos)
        person_lower == Lower(person_name)
        found == first_matching_role(person_lower, context)
    IN  IF has_political_keyword(context) THEN "Political Figure"
        ELSE IF found # "none" THEN found
        ELSE "Person"

\* person_name and full_text are tuples of characters
extract_person_role(person_name, full_text, start_pos, end_pos) ==
    LET context == context_window(full_text, start_pos, end_pos)
        person_lower == Lower(person_name)
        found == first_matching_role(person_lower, context)
    IN  IF found # "none" THEN found
        ELSE IF has_political_keyword(context) THEN "Political Figure"
        ELSE "Person"

(***************************************************************************)
(* LocationExtractor._is_likely_uk_location                                *)
(***************************************************************************)
uk_indicators ==
    <<"shire", "borough", "council", "upon", "green", "common", "heath",
      "bridge", "cross", "gate", "town", "city", "district", "ward",
      "cheshire", "gloucestershire", "worcestershire", "staffordshire",
      "derbyshire", "nottinghamshire", "leicestershire", "warwickshire">>

\* r"\b[A-Z]{1,2}\d{1,2}[A-Z]?\s?\d[A-Z]{2}\b", searched with re.IGNORECASE
postcode_pattern ==
    <<B, Rep("letter", 1, 2), Rep("digit", 1, 2), Rep("letter", 0, 1),
      Rep("space", 0, 1), Rep("digit", 1, 1), Rep("letter", 2, 2), B>>

\* a variant of is_likely_uk_location without the postcode test
is_likely_uk_location_no_postcode(location) ==
    LET location_lower == Lower(location)
    IN  \/ location_lower \in uk_cities_cs \/ location_lower \in uk_counties_cs
        \/ \E k \in 1..Len(uk_indicators) :
              Contains(Chars(uk_indicators[k]), location_lower)
        \/ (SplitCount(location) = 1 /\ IsTitle(location))

\* location is a tuple of characters
is_likely_uk_location(location) ==
    LET location_lower == Lower(location)
    IN  IF location_lower \in uk_cities_cs \/ location_lower \in uk_counties_cs
        THEN TRUE
        ELSE IF \E k \in 1..Len(uk_indicators) :
                    Contains(Chars(uk_indicators[k]), location_lower)
        THEN TRUE
        ELSE IF Search(postcode_pattern, location)
        THEN TRUE
        ELSE IF SplitCount(location) = 1 /\ IsTitle(location)
        THEN TRUE
        ELSE FALSE

(***************************************************************************)
(* Optional strings                                                        *)
(***************************************************************************)
\* Python's None, for a text that may be None
None == "<None>"

\* Python's truth value of an optional string
Truthy(text) == text # None /\ text # ""

\* str(x) if x else ""
StrOrEmpty(x) == IF Truthy(x) THEN x ELSE ""

\* str(post_data["text"]) if post_data["text"] else ""
post_text_of(p) == StrOrEmpty(p.text)

\* f"{link_title} {link_desc}".strip()
link_text_of(p) ==
    Str(Strip(Chars(StrOrEmpty(p.link_title) \o " " \o StrOrEmpty(p.link_description))))

(***************************************************************************)
(* The recognizer (spaCy's self.nlp) and the structural matcher            *)
(***************************************************************************)
\* the most entities the recognizer returns for one text
MaxEnts == 2

\* ent.label_ values the recognizer uses
EntityLabels == {"GPE", "LOC", "PERSON", "ORG"}

\* the strings the recognizer may take for an entity, wherever one stands as a
\* whole word of the text
EntityLexicon ==
    {"Jane Doe", "Sheffield", "SHEFFIELD", "Doncasterish", "Reform Party",
     "SW1A 1AA", "UK", "2024", "Birmingham City Council", "Milton Keynes"}

\* the 1-based starts of all matches of pattern re in cs
MatchStarts(re, cs) == {i \in 1..(Len(cs) + 1) : Ends(re, cs, i) # {}}

\* the spans (start_char, end_char) the recognizer may return for text cs
EntitySpans(cs) ==
    UNION {{[start |-> i - 1, end |-> i - 1 + Len(e)] :
               i \in MatchStarts(<<B, Lit(e), B>>, cs)} : e \in EntityLexicon}

\* the elements of a set of spans, by start_char
RECURSIVE SortSpans(_)
SortSpans(S) ==
    IF S = {} THEN <<>>
    ELSE LET m == CHOOSE x \in S : \A y \in S : x.start <= y.start
         IN  <<m>> \o SortSpans(S \ {m})

\* doc.ents for text cs: at most MaxEnts labelled spans that do not overlap,
\* in the order of the text; which ones, and with which labels, is the model's choice
Recognize(cs) ==
    LET picks == {S \in SUBSET EntitySpans(cs) :
                     /\ Cardinality(S) <= MaxEnts
                     /\ \A x, y \in S : x = y \/ x.end <= y.start \/ y.end <= x.start}
    IN  UNION {{[i \in 1..Len(SortSpans(S)) |->
                    [start |-> SortSpans(S)[i].start,
                     end   |-> SortSpans(S)[i].end,
                     label |-> lab[i]]] :
                 lab \in [1..Cardinality(S) -> EntityLabels]} : S \in picks}

\* one token with LOWER in the given words
Tok(words) == <<B, Alt({<<Lit(w)>> : w \in words}), B>>

\* one token with IS_ALPHA
AlphaTok == <<B, Plus("letter"), B>>

\* uk_patterns, over the lower-cased text; neighbouring tokens are separated by
\* whitespace
uk_patterns ==
    LET WS == <<Plus("space")>>
        \* IS_ALPHA with OP "+": one token or several
        AlphaToks == AlphaTok \o <<Opt(<<Many(WS \o AlphaTok)>>)>>
    IN  { Tok({"cheshire", "bath", "north", "south", "east", "west"}) \o WS
            \o <<Opt(Tok({"and", "west", "east", "north", "south"}) \o WS)>>
            \o Tok({"chester", "somerset", "lincolnshire", "yorkshire"}),
          AlphaTok \o WS \o Tok({"upon", "on"}) \o WS \o AlphaTok,
          Tok({"royal", "city", "county"}) \o WS \o Tok({"borough", "of"}) \o WS
            \o AlphaToks }

\* self.matcher(doc): the (start, end) character spans of all matches
matcher(cs) ==
    LET low == Lower(cs)
    IN  UNION {UNION {{[start |-> i - 1, end |-> j - 1] : j \in Ends(re, low, i)} :
                        i \in 1..Len(cs)} : re \in uk_patterns}

(***************************************************************************)
(* The texts the model feeds in                                            *)
(***************************************************************************)
Dots == ".........."

\* a stretch of text as long as the context radius, to set two mentions apart
Filler == Dots \o Dots \o Dots \o Dots \o Dots \o Dots \o Dots \o Dots \o Dots \o Dots

RolePrefixes ==
    {"", "MP ", "Councillor ", "Cllr ", "candidate ", "prospective MP candidate ",
     "leader ", "deputy leader ", "the election "}

RoleSuffixes ==
    {"", " MP", " (Reform UK MP)", " councillor", " (Cllr)", " candidate",
     " stands for", " leader", " deputy leader", " resigned"}

\* one mention of a name with a title before it and a title after it
RoleTexts == {p \o "Jane Doe" \o s : p \in RolePrefixes, s \in RoleSuffixes}

Mentions == {"Councillor Jane Doe", "Jane Doe", "the election Jane Doe", "Jane Doe MP"}

\* two mentions of the name, next to each other or out of each other's window
MentionTexts ==
    {m1 \o sep \o m2 : m1 \in Mentions, sep \in {" and ", Filler}, m2 \in Mentions}

PlaceTexts ==
    {"I visited Sheffield yesterday.", "Doncasterish", "Doncaster-ish",
     "sheffield and SHEFFIELD", "Reform Party in Milton Keynes", "SW1A 1AA",
     "Stoke upon Trent", "spoke on Monday", "Royal Borough of Kensington and Chelsea",
     "the UK in 2024", "Birmingham City Council", "North and west yorkshire"}

\* the arguments of the direct calls
CallTexts == RoleTexts \cup MentionTexts \cup PlaceTexts \cup {"", None}

\* the fields of the feed items
PostTexts ==
    {"", None, "Jane Doe", "Councillor Jane Doe", "the election Jane Doe",
     "Jane Doe MP", "Sheffield and SHEFFIELD",
     "Councillor Jane Doe" \o Filler \o "the election Jane Doe",
     "the election Jane Doe" \o Filler \o "Councillor Jane Doe",
     "Councillor Jane Doe" \o Filler \o "Jane Doe"}

LinkTitles == {"", "Councillor Jane Doe", "SHEFFIELD rally"}

LinkDescriptions == {"", None, "Jane Doe", Filler \o "the election Jane Doe"}

\* the feed items
Posts == [text : PostTexts, link_title : LinkTitles, link_description : LinkDescriptions]

\* the texts of the posts of the author's timeline, which repeat
TimelineTexts == <<"Jane Doe", "">>

\* every non-empty text the extractor is called with
ExtractorTexts ==
    {t \in CallTexts \cup {post_text_of(p) : p \in Posts}
                     \cup {link_text_of(p) : p \in Posts}
                     \cup {TimelineTexts[i] : i \in 1..Len(TimelineTexts)} : Truthy(t)}

(***************************************************************************)
(* LocationExtractor.extract_locations_and_persons_from_text               *)
(***************************************************************************)
\* ent.text.strip()
entity_text(cs, ent) == Strip(Slice(cs, ent.start, ent.end))

\* not skipped as very short or as a number
entity_kept(cs, ent) ==
    ~(Len(entity_text(cs, ent)) <= 2 \/ IsDigit(entity_text(cs, ent)))

\* the locations the loop over the matcher's matches adds
matcher_locations(cs) ==
    {Str(Strip(Slice(cs, m.start, m.end))) :
        m \in {x \in matcher(cs) : Len(Strip(Slice(cs, x.start, x.end))) > 2}}

\* a variant of gazetteer_match whose pattern has no word boundaries
gazetteer_match_substring(g, cs) ==
    LET text_lower == Lower(cs)
        pattern == <<LitCs(g)>>
    IN  IF Contains(g, text_lower) /\ Search(pattern, text_lower)
        THEN LET s == SearchStart(pattern, text_lower)
             IN  {Str(SubSeq(cs, s, s + Len(g) - 1))}
        ELSE {}

\* the original-case match of one gazetteer entry g, a set of at most one string
gazetteer_match(g, cs) ==
    LET text_lower == Lower(cs)
        pattern == <<B, LitCs(g), B>>
    IN  IF Contains(g, text_lower) /\ Search(pattern, text_lower)
        THEN \* re.search(pattern, text, re.IGNORECASE).group()
             LET s == SearchStart(pattern, text_lower)
             IN  {Str(SubSeq(cs, s, s + Len(g) - 1))}
        ELSE {}


\* The steps above depend on the text alone.  Their values, computed once for
\* each text of the model:
docs_of == [t \in ExtractorTexts |-> Recognize(Chars(t))]

role_of ==
    [t \in ExtractorTexts |->
        [s \in EntitySpans(Chars(t)) |->
            extract_person_role(entity_text(Chars(t), s), Chars(t), s.start, s.end)]]

\* the span of an entity
span_of(ent) == [start |-> ent.start, end |-> ent.end]

\* entity_text, as a string, and entity_kept of each span
entity_of ==
    [t \in ExtractorTexts |->
        [s \in EntitySpans(Chars(t)) |->
            [text |-> Str(entity_text(Chars(t), s)), kept |-> entity_kept(Chars(t), s)]]]

\* the role patterns that match the window of each span
role_hits_of ==
    [t \in ExtractorTexts |->
        [s \in EntitySpans(Chars(t)) |->
            matching_patterns(Lower(entity_text(Chars(t), s)),
                              context_window(Chars(t), s.start, s.end))]]

matcher_locations_of == [t \in ExtractorTexts |-> matcher_locations(Chars(t))]

gazetteer_match_of ==
    [t \in ExtractorTexts |->
        [g \in uk_cities \cup uk_counties |-> gazetteer_match(Chars(g), Chars(t))]]

\* the locations the loops over uk_cities and uk_counties add
gazetteer_locations(text) ==
    UNION {gazetteer_match_of[text][g] : g \in uk_cities \cup uk_counties}

\* every string that can stand in the set `locations` for some text
CandidateStrings ==
    UNION {{entity_of[t][s].text : s \in EntitySpans(Chars(t))}
              \cup matcher_locations_of[t] \cup gazetteer_locations(t) :
           t \in ExtractorTexts}

likely_uk_location_of ==
    [location \in CandidateStrings |-> is_likely_uk_location(Chars(location))]

\* the entities for which the loop over doc.ents appends a person, in its order
person_ents(text, ents) ==
    SelectSeq(ents, LAMBDA ent : entity_of[text][span_of(ent)].kept /\ ent.label = "PERSON")

\* the locations the loop over doc.ents adds
ner_locations(text, ents) ==
    {entity_of[text][span_of(ents[i])].text :
        i \in {j \in 1..Len(ents) :
                  /\ entity_of[text][span_of(ents[j])].kept
                  /\ ents[j].label \in {"GPE", "LOC"}}}

\* the persons the loop over doc.ents appends, in its order
RECURSIVE ner_persons(_, _)
ner_persons(text, ents) ==
    IF ents = <<>> THEN <<>>
    ELSE LET ent == Head(ents)
             this == IF entity_of[text][span_of(ent)].kept /\ ent.label = "PERSON"
                     THEN <<[name |-> entity_of[text][span_of(ent)].text,
                             role |-> role_of[text][span_of(ent)]]>>
                     ELSE <<>>
         IN  this \o ner_persons(text, Tail(ents))

\* the set `locations` before the filter
candidate_locations(text, ents) ==
    ner_locations(text, ents) \cup matcher_locations_of[text]
        \cup gazetteer_locations(text)

\* a variant of filtered_locations that keeps every candidate
unfiltered_locations(text, ents) == candidate_locations(text, ents)

\* the members of filtered_locations
filtered_locations(text, ents) ==
    {location \in candidate_locations(text, ents) : likely_uk_location_of[location]}

\* the lists that hold exactly the members of set S once each: the orders in
\* which Python may iterate over the set
RECURSIVE Orderings(_)
Orderings(S) ==
    IF S = {} THEN {<<>>}
    ELSE UNION {{<<x>> \o rest : rest \in Orderings(S \ {x})} : x \in S}

\* the results of the call for a text and the entities the recognizer returned
\* for it; an empty or None text returns before the recognizer runs
extract_locations_and_persons_from_text(text, ents) ==
    IF ~Truthy(text) THEN {[locations |-> <<>>, persons |-> <<>>]}
    ELSE {[locations |-> locs, persons |-> ner_persons(text, ents)] :
             locs \in Orderings(filtered_locations(text, ents))}

\* the documents self.nlp may return when the call reaches it
nlp(text) == IF ~Truthy(text) THEN {<<>>} ELSE docs_of[text]

\* a variant of invokes_nlp for a call without the guard on the text
invokes_nlp_always(text) == TRUE

\* whether the call invokes self.nlp
invokes_nlp(text) == Truthy(text)

(***************************************************************************)
(* BlueskyPostScraper.get_user_posts: the merge of the two sources         *)
(***************************************************************************)
\* name in person_dict; a dict is the list of its items in insertion order
dict_has(d, name) == \E i \in 1..Len(d) : d[i].name = name

\* person_dict[name]
dict_get(d, name) == d[CHOOSE i \in 1..Len(d) : d[i].name = name].role

\* person_dict[name] = role
dict_set(d, name, role) ==
    IF dict_has(d, name)
    THEN [i \in 1..Len(d) |-> IF d[i].name = name THEN [name |-> name, role |-> role]
                                                   ELSE d[i]]
    ELSE Append(d, [name |-> name, role |-> role])

\* a variant of merge_text_persons in which a role once stored gives way to no
\* other role but to replace "Person"
RECURSIVE merge_text_persons_first_wins(_, _)
merge_text_persons_first_wins(d, persons) ==
    IF persons = <<>> THEN d
    ELSE LET name == Head(persons).name
             role == Head(persons).role
         IN  merge_text_persons_first_wins(
                IF ~dict_has(d, name) \/ (dict_get(d, name) = "Person" /\ role # "Person")
                THEN dict_set(d, name, role) ELSE d,
                Tail(persons))

\* for person_data in post_data["text_persons"]
RECURSIVE merge_text_persons(_, _)
merge_text_persons(d, persons) ==
    IF persons = <<>> THEN d
    ELSE LET name == Head(persons).name
             role == Head(persons).role
         IN  merge_text_persons(
                IF ~dict_has(d, name) \/ role # "Person"
                THEN dict_set(d, name, role) ELSE d,
                Tail(persons))

\* a variant of merge_link_persons in which the link's role always wins
RECURSIVE merge_link_persons_overwrite(_, _)
merge_link_persons_overwrite(d, persons) ==
    IF persons = <<>> THEN d
    ELSE merge_link_persons_overwrite(
            dict_set(d, Head(persons).name, Head(persons).role), Tail(persons))

\* for person_data in post_data["link_persons"]
RECURSIVE merge_link_persons(_, _)
merge_link_persons(d, persons) ==
    IF persons = <<>> THEN d
    ELSE LET name == Head(persons).name
             role == Head(persons).role
         IN  merge_link_persons(
                IF ~dict_has(d, name) \/ (dict_get(d, name) = "Person" /\ role # "Person")
                THEN dict_set(d, name, role) ELSE d,
                Tail(persons))

\* all_persons: the items of person_dict
merge_persons(text_ps, link_ps) ==
    merge_link_persons(merge_text_persons(<<>>, text_ps), link_ps)

\* the elements of a list
Range(seq) == {seq[i] : i \in 1..Len(seq)}

\* a variant of merge_locations that takes two spellings of a place for one
merge_locations_caseless(text_locs, link_locs) ==
    Range(text_locs) \cup
        {b \in Range(link_locs) :
            ~\E a \in Range(text_locs) : Lower(Chars(a)) = Lower(Chars(b))}

\* the members of the set all_locations
merge_locations(text_locs, link_locs) == Range(text_locs) \cup Range(link_locs)

(***************************************************************************)
(* The processing of one feed item in get_user_posts                       *)
(***************************************************************************)
NoPost == [text |-> "", link_title |-> "", link_description |-> ""]

\* no get_author_feed call made yet, no page received yet
NoRequest == [limit |-> 0, cursor |-> None]
NoResponse == [feed |-> <<>>, cursor |-> None]

\* get_user_posts has not started: its locals have no value yet
LoopIdle ==
    /\ limit = <<>>
    /\ posts = <<>>
    /\ posts_fetched = 0
    /\ page_count = 0
    /\ cursor = None
    /\ request = NoRequest
    /\ response = NoResponse
    /\ feed_pos = 0
    /\ served = 0

\* the scraper and its extractor exist, with the language model loaded
Constructed ==
    /\ nlp_model = "loaded"
    /\ location_extractor = "constructed"
    /\ scraper = "constructed"
    /\ authenticated = FALSE
    /\ LoopIdle

Init ==
    /\ pc = "fetch"
    /\ post = NoPost
    /\ text_doc = <<>>
    /\ link_doc = <<>>
    /\ text_locations = <<>>
    /\ text_persons = <<>>
    /\ link_locations = <<>>
    /\ link_persons = <<>>
    /\ all_locations = <<>>
    /\ all_persons = <<>>
    /\ nlp_calls = 0
    /\ arg = ""
    /\ doc = <<>>
    /\ ret = [fn |-> "none", locations |-> <<>>, persons |-> <<>>]
    /\ Constructed

\* for feed_item in response.feed: post_data is built from the item
FetchItem ==
    /\ pc = "fetch"
    /\ post' \in Posts
    /\ text_doc' = <<>>
    /\ link_doc' = <<>>
    /\ text_locations' = <<>>
    /\ text_persons' = <<>>
    /\ link_locations' = <<>>
    /\ link_persons' = <<>>
    /\ all_locations' = <<>>
    /\ all_persons' = <<>>
    /\ nlp_calls' = 0
    /\ pc' = "text"
    /\ UNCHANGED <<arg, doc, ret>>
    /\ UNCHANGED scraper_vars

\* if post_text: text_locations, text_persons = extract...(post_text)
ExtractPostText ==
    /\ pc = "text"
    /\ LET post_text == post_text_of(post)
       IN  IF post_text # ""
           THEN \E ents \in nlp(post_text) :
                \E r \in extract_locations_and_persons_from_text(post_text, ents) :
                   /\ text_doc' = ents
                   /\ text_locations' = r.locations
                   /\ text_persons' = r.persons
                   /\ nlp_calls' = nlp_calls + 1
           ELSE UNCHANGED <<text_doc, text_locations, text_persons, nlp_calls>>
    /\ pc' = "link"
    /\ UNCHANGED <<post, link_doc, link_locations, link_persons, all_locations,
                   all_persons, arg, doc, ret>>
    /\ UNCHANGED scraper_vars

\* if link_text: link_locations, link_persons = extract...(link_text)
ExtractLinkText ==
    /\ pc = "link"
    /\ LET link_text == link_text_of(post)
       IN  IF link_text # ""
           THEN \E ents \in nlp(link_text) :
                \E r \in extract_locations_and_persons_from_text(link_text, ents) :
                   /\ link_doc' = ents
                   /\ link_locations' = r.locations
                   /\ link_persons' = r.persons
                   /\ nlp_calls' = nlp_calls + 1
           ELSE UNCHANGED <<link_doc, link_locations, link_persons, nlp_calls>>
    /\ pc' = "combine"
    /\ UNCHANGED <<post, text_doc, text_locations, text_persons, all_locations,
                   all_persons, arg, doc, ret>>
    /\ UNCHANGED scraper_vars

\* all_locations and all_persons are combined and the post is appended
CombinePost ==
    /\ pc = "combine"
    /\ all_locations' \in Orderings(merge_locations(text_locations, link_locations))
    /\ all_persons' = merge_persons(text_persons, link_persons)
    /\ pc' = "appended"
    /\ UNCHANGED <<post, text_doc, link_doc, text_locations, text_persons,
                   link_locations, link_persons, nlp_calls, arg, doc, ret>>
    /\ UNCHANGED scraper_vars

Next == FetchItem \/ ExtractPostText \/ ExtractLinkText \/ CombinePost

Spec == Init /\ [][Next]_vars

(***************************************************************************)
(* Direct calls of the extractor's two entry points                        *)
(***************************************************************************)
InitExtract ==
    /\ pc = "call"
    /\ arg \in CallTexts
    /\ post = NoPost
    /\ text_doc = <<>>
    /\ link_doc = <<>>
    /\ text_locations = <<>>
    /\ text_persons = <<>>
    /\ link_locations = <<>>
    /\ link_persons = <<>>
    /\ all_locations = <<>>
    /\ all_persons = <<>>
    /\ nlp_calls = 0
    /\ doc = <<>>
    /\ ret = [fn |-> "none", locations |-> <<>>, persons |-> <<>>]
    /\ Constructed

\* extract_locations_and_persons_from_text(arg)
CallExtractLocationsAndPersons ==
    /\ pc = "call"
    /\ \E ents \in nlp(arg) :
       \E r \in extract_locations_and_persons_from_text(arg, ents) :
          /\ doc' = ents
          /\ ret' = [fn |-> "extract_locations_and_persons_from_text",
                     locations |-> r.locations, persons |-> r.persons]
    /\ nlp_calls' = IF invokes_nlp(arg) THEN nlp_calls + 1 ELSE nlp_calls
    /\ pc' = "returned"
    /\ UNCHANGED <<post, text_doc, link_doc, text_locations, text_persons,
                   link_locations, link_persons, all_locations, all_persons, arg>>
    /\ UNCHANGED scraper_vars

\* extract_locations_from_text(arg): the locations of the call above
CallExtractLocations ==
    /\ pc = "call"
    /\ \E ents \in nlp(arg) :
       \E r \in extract_locations_and_persons_from_text(arg, ents) :
          /\ doc' = ents
          /\ ret' = [fn |-> "extract_locations_from_text",
                     locations |-> r.locations, persons |-> <<>>]
    /\ nlp_calls' = IF invokes_nlp(arg) THEN nlp_calls + 1 ELSE nlp_calls
    /\ pc' = "returned"
    /\ UNCHANGED <<post, text_doc, link_doc, text_locations, text_persons,
                   link_locations, link_persons, all_locations, all_persons, arg>>
    /\ UNCHANGED scraper_vars

NextExtract == CallExtractLocationsAndPersons \/ CallExtractLocations

SpecExtract == InitExtract /\ [][NextExtract]_vars
(***************************************************************************)
(* Both: one feed item processed by get_user_posts, or one direct call     *)
(***************************************************************************)
SpecAll == (Init \/ InitExtract) /\ [][Next \/ NextExtract]_vars

(***************************************************************************)
(* Start-up: BlueskyPostScraper.__init__ and LocationExtractor.__init__    *)
(***************************************************************************)
\* what spacy.load("en_core_web_sm") may do
LoadOutcomes == {"ok", "OSError", "other error"}

\* a variant of LocationExtractor_init that goes on without the model
LocationExtractor_init_degraded(load) ==
    [raised |-> FALSE, nlp |-> IF load = "ok" THEN "loaded" ELSE "failed"]

\* LocationExtractor.__init__: an OSError of the load is printed and raised
\* again, any other error is not caught
LocationExtractor_init(load) ==
    IF load = "ok" THEN [raised |-> FALSE, nlp |-> "loaded"]
    ELSE [raised |-> TRUE, nlp |-> "failed"]

\* nothing is constructed yet
InitProgram ==
    /\ pc = "new"
    /\ post = NoPost
    /\ text_doc = <<>>
    /\ link_doc = <<>>
    /\ text_locations = <<>>
    /\ text_persons = <<>>
    /\ link_locations = <<>>
    /\ link_persons = <<>>
    /\ all_locations = <<>>
    /\ all_persons = <<>>
    /\ nlp_calls = 0
    /\ arg = ""
    /\ doc = <<>>
    /\ ret = [fn |-> "none", locations |-> <<>>, persons |-> <<>>]
    /\ nlp_model = "unloaded"
    /\ location_extractor = "none"
    /\ scraper = "none"
    /\ authenticated = FALSE
    /\ LoopIdle

\* BlueskyPostScraper(username, password): the extractor is constructed first,
\* and its error leaves the constructor; a failed login is caught
ConstructScraper ==
    /\ pc = "new"
    /\ \E load \in LoadOutcomes, credentials \in BOOLEAN, login_ok \in BOOLEAN :
          LET extractor == LocationExtractor_init(load)
          IN  /\ nlp_model' = extractor.nlp
              /\ IF extractor.raised
                 THEN /\ location_extractor' = "none"
                      /\ scraper' = "none"
                      /\ authenticated' = FALSE
                      /\ pc' = "raised"
                 ELSE /\ location_extractor' = "constructed"
                      /\ scraper' = "constructed"
                      /\ authenticated' = (credentials /\ login_ok)
                      /\ pc' = "ready"
    /\ UNCHANGED <<post, text_doc, link_doc, text_locations, text_persons,
                   link_locations, link_persons, all_locations, all_persons,
                   nlp_calls, arg, doc, ret>>
    /\ UNCHANGED <<limit, posts, posts_fetched, page_count, cursor, request,
                   response, feed_pos, served>>

(***************************************************************************)
(* BlueskyPostScraper.get_user_posts: the loop over the pages of the feed  *)
(***************************************************************************)
\* the most items get_user_posts asks for in one request
MaxBatch == 100

\* the most pages the feed source serves with a continuation cursor after them
MaxPages == 2

\* the most items the feed source puts in one page
MaxFeedLen == 2

\* the values of the limit argument: None, or an int
Limits == {<<>>} \cup {<<n>> : n \in {-1, 0, 1, 3, 101}}

\* the k-th post of the author's timeline
TimelineItem(k) ==
    [uri |-> k, text |-> TimelineTexts[((k - 1) % Len(TimelineTexts)) + 1],
     link_title |-> "", link_description |-> ""]

\* the continuation cursor the feed source gives with its n-th page
CursorAfter(n) == "c" \o SubSeq(DigitChars, n + 1, n + 1)

\* the pages the feed source may return now: the next posts of the timeline, as
\* many as it likes whatever the request asked for, with a cursor or without;
\* page number MaxPages is empty or has no cursor
Pages ==
    {r \in {[feed |-> [i \in 1..n |-> TimelineItem(served + i)], cursor |-> c] :
               n \in 0..MaxFeedLen, c \in {None, "", CursorAfter(page_count + 1)}} :
        page_count + 1 < MaxPages \/ r.feed = <<>> \/ ~Truthy(r.cursor)}

\* a variant of limit_reached that lets one post more through
limit_exceeded == limit # <<>> /\ posts_fetched > limit[1]

\* limit is not None and posts_fetched >= limit
limit_reached == limit # <<>> /\ posts_fetched >= limit[1]

\* batch_size of the request made now
batch_size ==
    IF limit # <<>> THEN Min(MaxBatch, limit[1] - posts_fetched) ELSE MaxBatch

\* the dict appended for the current feed item
post_data ==
    [uri              |-> response.feed[feed_pos].uri,
     text             |-> post.text,
     link_title       |-> post.link_title,
     link_description |-> post.link_description,
     text_locations   |-> text_locations,
     text_persons     |-> text_persons,
     link_locations   |-> link_locations,
     link_persons     |-> link_persons,
     all_locations    |-> all_locations,
     all_persons      |-> all_persons]

\* get_user_posts(handle, limit) is called; an error of get_profile is caught
\* and the empty list is returned
CallGetUserPosts ==
    /\ pc = "ready"
    /\ \E lim \in Limits, profile_ok \in BOOLEAN :
          /\ limit' = lim
          /\ pc' = IF profile_ok THEN "loop" ELSE "done"
    /\ posts' = <<>>
    /\ posts_fetched' = 0
    /\ page_count' = 0
    /\ cursor' = None
    /\ UNCHANGED <<post, text_doc, link_doc, text_locations, text_persons,
                   link_locations, link_persons, all_locations, all_persons,
                   nlp_calls, arg, doc, ret>>
    /\ UNCHANGED <<nlp_model, location_extractor, scraper, authenticated, request,
                   response, feed_pos, served>>

\* while True: the limit is reached, break and return posts
LimitReached ==
    /\ pc = "loop"
    /\ limit_reached
    /\ pc' = "done"
    /\ UNCHANGED <<post, text_doc, link_doc, text_locations, text_persons,
                   link_locations, link_persons, all_locations, all_persons,
                   nlp_calls, arg, doc, ret>>
    /\ UNCHANGED scraper_vars

\* response = self.client.get_author_feed(actor, limit=batch_size, cursor=cursor);
\* an empty feed breaks the loop
RequestPage ==
    /\ pc = "loop"
    /\ ~limit_reached
    /\ request' = [limit |-> batch_size, cursor |-> cursor]
    /\ \E r \in Pages :
          /\ response' = r
          /\ served' = served + Len(r.feed)
          /\ IF r.feed = <<>>
             THEN /\ pc' = "done"
                  /\ UNCHANGED <<page_count, feed_pos>>
             ELSE /\ page_count' = page_count + 1
                  /\ feed_pos' = 1
                  /\ pc' = "feed"
    /\ UNCHANGED <<post, text_doc, link_doc, text_locations, text_persons,
                   link_locations, link_persons, all_locations, all_persons,
                   nlp_calls, arg, doc, ret>>
    /\ UNCHANGED <<nlp_model, location_extractor, scraper, authenticated, limit,
                   posts, posts_fetched, cursor>>

\* get_author_feed raises: except Exception, and posts is returned
RequestFails ==
    /\ pc = "loop"
    /\ ~limit_reached
    /\ request' = [limit |-> batch_size, cursor |-> cursor]
    /\ pc' = "done"
    /\ UNCHANGED <<post, text_doc, link_doc, text_locations, text_persons,
                   link_locations, link_persons, all_locations, all_persons,
                   nlp_calls, arg, doc, ret>>
    /\ UNCHANGED <<nlp_model, location_extractor, scraper, authenticated, limit,
                   posts, posts_fetched, page_count, cursor, response, feed_pos,
                   served>>

\* for feed_item in response.feed: the next item, its post_data with the
\* empty defaults
NextFeedItem ==
    /\ pc = "feed"
    /\ feed_pos <= Len(response.feed)
    /\ ~limit_reached
    /\ post' = [text             |-> response.feed[feed_pos].text,
                link_title       |-> response.feed[feed_pos].link_title,
                link_description |-> response.feed[feed_pos].link_description]
    /\ text_doc' = <<>>
    /\ link_doc' = <<>>
    /\ text_locations' = <<>>
    /\ text_persons' = <<>>
    /\ link_locations' = <<>>
    /\ link_persons' = <<>>
    /\ all_locations' = <<>>
    /\ all_persons' = <<>>
    /\ pc' = "text"
    /\ UNCHANGED <<nlp_calls, arg, doc, ret>>
    /\ UNCHANGED scraper_vars

\* posts.append(post_data); posts_fetched += 1
AppendPost ==
    /\ pc = "appended"
    /\ posts' = Append(posts, post_data)
    /\ posts_fetched' = posts_fetched + 1
    /\ feed_pos' = feed_pos + 1
    /\ pc' = "feed"
    /\ UNCHANGED <<post, text_doc, link_doc, text_locations, text_persons,
                   link_locations, link_persons, all_locations, all_persons,
                   nlp_calls, arg, doc, ret>>
    /\ UNCHANGED <<nlp_model, location_extractor, scraper, authenticated, limit,
                   page_count, cursor, request, response, served>>

\* a variant of EndPage that goes on to the next request without a cursor
EndPage_without_cursor_check ==
    /\ pc = "feed"
    /\ feed_pos > Len(response.feed) \/ limit_reached
    /\ cursor' = response.cursor
    /\ pc' = "loop"
    /\ UNCHANGED <<post, text_doc, link_doc, text_locations, text_persons,
                   link_locations, link_persons, all_locations, all_persons,
                   nlp_calls, arg, doc, ret>>
    /\ UNCHANGED <<nlp_model, location_extractor, scraper, authenticated, limit,
                   posts, posts_fetched, page_count, request, response, feed_pos,
                   served>>

\* the for loop ends, by exhausting the feed or by the break at the limit:
\* cursor = getattr(response, "cursor", None); without a cursor the loop breaks
EndPage ==
    /\ pc = "feed"
    /\ feed_pos > Len(response.feed) \/ limit_reached
    /\ cursor' = response.cursor
    /\ pc' = IF Truthy(response.cursor) THEN "loop" ELSE "done"
    /\ UNCHANGED <<post, text_doc, link_doc, text_locations, text_persons,
                   link_locations, link_persons, all_locations, all_persons,
                   nlp_calls, arg, doc, ret>>
    /\ UNCHANGED <<nlp_model, location_extractor, scraper, authenticated, limit,
                   posts, posts_fetched, page_count, request, response, feed_pos,
                   served>>

NextPages ==
    \/ ConstructScraper
    \/ CallGetUserPosts
    \/ LimitReached
    \/ RequestPage
    \/ RequestFails
    \/ NextFeedItem
    \/ ExtractPostText
    \/ ExtractLinkText
    \/ CombinePost
    \/ AppendPost
    \/ EndPage

\* the program from its start: construction, then one call of get_user_posts
SpecPages == InitProgram /\ [][NextPages]_vars

\* the same, with the program taking its next step as long as it has one; the
\* feed source ends its pages by the bound in Pages
SpecPagesLive == SpecPages /\ WF_vars(NextPages)

(***************************************************************************)
(* Properties                                                              *)
(***************************************************************************)
\* a direct call of extract_locations_and_persons_from_text has returned
Returned == pc = "returned" /\ ret.fn = "extract_locations_and_persons_from_text"

\* C1: every string of the location list a call of
\* extract_locations_and_persons_from_text or extract_locations_from_text
\* returns satisfies _is_likely_uk_location, whether it came from the
\* recognizer, from the matcher patterns or from the gazetteer scan.
C1_LocationsPassFilter ==
    pc = "returned" =>
        \A i \in 1..Len(ret.locations) : is_likely_uk_location(Chars(ret.locations[i]))

\* a call returned some locations and dropped a candidate of the recognizer
C1_Witness ==
    /\ pc = "returned"
    /\ Truthy(arg)
    /\ ret.locations # <<>>
    /\ \E c \in ner_locations(arg, doc) : c \notin Range(ret.locations)
    /\ \E c \in ner_locations(arg, doc) : c \in Range(ret.locations)
    /\ \E c \in gazetteer_locations(arg) : c \in Range(ret.locations)

\* the roles a list of persons holds for a name
roles_in(persons, name) == {persons[i].role : i \in {j \in 1..Len(persons) : persons[j].name = name}}

\* the names of a list of persons
names_in(persons) == {persons[i].name : i \in 1..Len(persons)}

\* C2: in all_persons every name of either source appears exactly once (and
\* no other name); a name that is Person in one source and has a non-Person
\* role in the other gets the non-Person role, whichever source holds it; a
\* name that is Person in both stays Person; a name with the same specific
\* role in both keeps that role.
C2_MergePersons ==
    pc = "appended" =>
        /\ names_in(all_persons) = names_in(text_persons) \cup names_in(link_persons)
        /\ \A i, j \in 1..Len(all_persons) :
              all_persons[i].name = all_persons[j].name => i = j
        /\ \A name \in names_in(text_persons) \cap names_in(link_persons) :
              LET t == roles_in(text_persons, name)
                  l == roles_in(link_persons, name)
                  merged == roles_in(all_persons, name)
              IN  /\ (t = {"Person"} /\ l # {"Person"}) =>
                        \E r \in l \ {"Person"} : merged = {r}
                  /\ (l = {"Person"} /\ t # {"Person"}) =>
                        \E r \in t \ {"Person"} : merged = {r}
                  /\ (t = {"Person"} /\ l = {"Person"}) => merged = {"Person"}
                  /\ \A r \in t : (t = {r} /\ l = {r}) => merged = {r}

\* the post text holds the name as Person, the link holds it with a specific
\* role, and the merged role is the link's
C2_Witness ==
    /\ pc = "appended"
    /\ \E name \in names_in(text_persons) \cap names_in(link_persons) :
          /\ roles_in(text_persons, name) = {"Person"}
          /\ roles_in(link_persons, name) = {"Councillor"}
          /\ roles_in(all_persons, name) = {"Councillor"}

\* the mentions of a name in the two sources of the post: source, the entity,
\* the role it was given
mentions_of(name) ==
    {[source |-> "text", ent |-> person_ents(post_text_of(post), text_doc)[i],
      role |-> text_persons[i].role] :
        i \in {j \in 1..Len(text_persons) : text_persons[j].name = name}}
    \cup
    {[source |-> "link", ent |-> person_ents(link_text_of(post), link_doc)[i],
      role |-> link_persons[i].role] :
        i \in {j \in 1..Len(link_persons) : link_persons[j].name = name}}

\* mention b lies outside the context window of mention a
outside_window(a, b) ==
    \/ a.source # b.source
    \/ b.ent.start >= a.ent.end + ContextRadius
    \/ b.ent.end <= a.ent.start - ContextRadius

\* C3: a name mentioned once as Councillor and once bare, outside the window of
\* the first mention, is Councillor in all_persons, in either order, in the
\* same source or in different ones, whatever tag the bare mention got.
C3_RolePriority ==
    pc = "appended" =>
        \A name \in names_in(all_persons) :
            \A a, b \in mentions_of(name) :
                (/\ mentions_of(name) = {a, b}
                 /\ a # b
                 /\ a.role = "Councillor"
                 /\ b.role \in {"Person", "Political Figure"}
                 /\ outside_window(a, b))
                => roles_in(all_persons, name) = {"Councillor"}

\* C4: the role of a person is the tag of the first pattern of the table that
\* matches the context window, and the table is ordered MP, Councillor,
\* Candidate, Leader, Deputy Leader: when patterns of several groups match, the
\* tag of the earliest group is returned.
GroupRank(role) ==
    CASE role = "MP" -> 1
      [] role = "Councillor" -> 2
      [] role = "Candidate" -> 3
      [] role = "Leader" -> 4
      [] role = "Deputy Leader" -> 5
      [] OTHER -> 6

C4_FirstPatternWins ==
    Returned =>
        \A i \in 1..Len(ret.persons) :
            LET ent == person_ents(arg, doc)[i]
                table == role_patterns(Lower(Chars(ret.persons[i].name)))
                hits == role_hits_of[arg][span_of(ent)]
            IN  /\ \A m, n \in 1..Len(table) :
                      m < n => GroupRank(table[m].role) <= GroupRank(table[n].role)
                /\ hits # {} =>
                      /\ \E m \in hits : /\ \A n \in hits : m <= n
                                         /\ ret.persons[i].role = table[m].role
                      /\ \A n \in hits :
                            GroupRank(ret.persons[i].role) <= GroupRank(table[n].role)

\* a person whose window is matched by patterns of two groups
C4_Witness ==
    /\ Returned
    /\ \E i \in 1..Len(ret.persons) :
          LET ent == person_ents(arg, doc)[i]
              table == role_patterns(Lower(Chars(ret.persons[i].name)))
              hits == role_hits_of[arg][span_of(ent)]
          IN  /\ ret.persons[i].role = "MP"
              /\ \E m, n \in hits : table[m].role = "MP" /\ table[n].role = "Leader"

\* the domain keywords named by the claim
DomainKeywords ==
    {"reform uk", "reform party", "election", "constituency", "council",
     "government", "political", "parliament"}

\* the lower-cased window of a span of a text holds one of the domain keywords
keyword_in_window_of ==
    [t \in ExtractorTexts |->
        [s \in EntitySpans(Chars(t)) |->
            \E kw \in DomainKeywords :
                Contains(Chars(kw), context_window(Chars(t), s.start, s.end))]]

\* C5: when no role pattern matches the window, the role is Political Figure
\* if and only if the lower-cased window holds a domain keyword, and Person
\* otherwise; neither tag is returned when a role pattern matches.
C5_Fallback ==
    Returned =>
        \A i \in 1..Len(ret.persons) :
            LET s == span_of(person_ents(arg, doc)[i])
                role == ret.persons[i].role
            IN  IF role_hits_of[arg][s] = {}
                THEN /\ role = "Political Figure" <=> keyword_in_window_of[arg][s]
                     /\ role = "Person" <=> ~keyword_in_window_of[arg][s]
                ELSE role \notin {"Political Figure", "Person"}

\* a person with no matching pattern and a keyword in the window
C5_Witness ==
    /\ Returned
    /\ \E i \in 1..Len(ret.persons) :
          /\ role_hits_of[arg][span_of(person_ents(arg, doc)[i])] = {}
          /\ ret.persons[i].role = "Political Figure"

\* the place indicators named by the claim
PlaceIndicators ==
    {"shire", "borough", "council", "upon", "green", "common", "heath", "bridge",
     "cross", "gate", "town", "city", "district", "ward", "cheshire",
     "gloucestershire", "worcestershire", "staffordshire", "derbyshire",
     "nottinghamshire", "leicestershire", "warwickshire"}

\* a postcode stands in cs from position i: 1-2 letters, 1-2 digits, an
\* optional letter, an optional space, a digit, 2 letters, as a whole word
PostcodeAt(cs, i) ==
    \E a \in 1..2, d \in 1..2, o \in 0..1, sp \in 0..1 :
        LET e == i + a + d + o + sp + 3
            letters(from, n) == \A k \in from..(from + n - 1) : IsCased(cs[k])
            digits(from, n) == \A k \in from..(from + n - 1) : cs[k] \in DigitSet
        IN  /\ e <= Len(cs) + 1
            /\ letters(i, a)
            /\ digits(i + a, d)
            /\ letters(i + a + d, o)
            /\ \A k \in (i + a + d + o)..(i + a + d + o + sp - 1) : cs[k] = " "
            /\ digits(i + a + d + o + sp, 1)
            /\ letters(i + a + d + o + sp + 1, 2)
            /\ (i = 1 \/ ~IsWordCh(cs[i - 1]))
            /\ (e = Len(cs) + 1 \/ ~IsWordCh(cs[e]))

\* the four conditions of the claim, for each candidate of the model
plausible_of ==
    [c \in CandidateStrings |->
        LET cs == Chars(c)
        IN  \/ \E g \in uk_cities \cup uk_counties : Chars(g) = Lower(cs)
            \/ \E ind \in PlaceIndicators : Contains(Chars(ind), Lower(cs))
            \/ \E i \in 1..Len(cs) : PostcodeAt(cs, i)
            \/ (SplitCount(cs) = 1 /\ IsTitle(cs))]

\* C6: a candidate is accepted by _is_likely_uk_location exactly when it is a
\* gazetteer entry (lower-cased), or holds a place indicator (lower-cased), or
\* holds a match of the postcode pattern, or is one title-cased word; the
\* literal "SW1A 1AA" is accepted, and a candidate of several words that meets
\* none of the first three conditions is rejected.
C6_FilterRule ==
    /\ "SW1A 1AA" \in CandidateStrings /\ likely_uk_location_of["SW1A 1AA"]
    /\ (pc = "returned" /\ Truthy(arg)) =>
          \A c \in candidate_locations(arg, doc) :
              /\ c \in Range(ret.locations) <=> plausible_of[c]
              /\ (SplitCount(Chars(c)) > 1
                  /\ ~(\E g \in uk_cities \cup uk_counties : Chars(g) = Lower(Chars(c)))
                  /\ ~(\E ind \in PlaceIndicators : Contains(Chars(ind), Lower(Chars(c))))
                  /\ ~(\E i \in 1..Len(c) : PostcodeAt(Chars(c), i)))
                 => c \notin Range(ret.locations)

\* a call returns "SW1A 1AA": two words, no gazetteer entry, no indicator,
\* accepted for the postcode pattern alone
C6_Witness ==
    /\ pc = "returned"
    /\ Truthy(arg)
    /\ "SW1A 1AA" \in Range(ret.locations)

\* C7: the persons a call of extract_locations_and_persons_from_text returns
\* hold each name at most once, with one role.
C7_PersonsAreMapping ==
    Returned =>
        \A i, j \in 1..Len(ret.persons) :
            ret.persons[i].name = ret.persons[j].name => i = j

\* C8: all_locations holds every string of text_locations and link_locations,
\* nothing else, and no string twice, strings being compared exactly: two
\* strings that differ in capitalisation only are both kept.
C8_LocationsUnion ==
    pc = "appended" =>
        /\ Range(all_locations) = Range(text_locations) \cup Range(link_locations)
        /\ \A i, j \in 1..Len(all_locations) :
              all_locations[i] = all_locations[j] => i = j
        /\ \A a \in Range(text_locations), b \in Range(link_locations) :
              (a # b /\ Lower(Chars(a)) = Lower(Chars(b))) =>
                  \E i, j \in 1..Len(all_locations) :
                      i # j /\ all_locations[i] = a /\ all_locations[j] = b

\* the two sources hold the same place in different capitalisation, and a
\* place they share
C8_Witness ==
    /\ pc = "appended"
    /\ \E a \in Range(text_locations), b \in Range(link_locations) :
          a # b /\ Lower(Chars(a)) = Lower(Chars(b))
    /\ Range(text_locations) \cap Range(link_locations) # {}

\* the 1-based positions at which entry g stands in text t as a whole word,
\* case-insensitively: not next to a letter, a digit or an underscore
whole_word_of ==
    [t \in ExtractorTexts |->
        [g \in uk_cities \cup uk_counties |->
            {i \in 1..Len(t) :
                /\ i + Len(g) - 1 <= Len(t)
                /\ Lower(Chars(SubSeq(t, i, i + Len(g) - 1))) = Chars(g)
                /\ (i = 1 \/ ~IsWordCh(SubSeq(t, i - 1, i - 1)))
                /\ (i + Len(g) > Len(t) \/ ~IsWordCh(SubSeq(t, i + Len(g), i + Len(g))))}]]

\* C9: the gazetteer scan adds a location for entry g if and only if g stands
\* in the text as a whole word, case-insensitively; the string it adds is the
\* text's own spelling (of the first such place), and the call returns it.
C9_GazetteerScan ==
    (pc = "returned" /\ Truthy(arg)) =>
        \A g \in uk_cities \cup uk_counties :
            LET occ == whole_word_of[arg][g]
                first == CHOOSE i \in occ : \A j \in occ : i <= j
                surface == SubSeq(arg, first, first + Len(g) - 1)
            IN  /\ gazetteer_match_of[arg][g] # {} <=> occ # {}
                /\ occ # {} => /\ gazetteer_match_of[arg][g] = {surface}
                               /\ surface \in Range(ret.locations)

\* an entry stands in the text in another capitalisation and is returned so
C9_Witness ==
    /\ pc = "returned"
    /\ Truthy(arg)
    /\ \E g \in uk_cities \cup uk_counties :
          /\ whole_word_of[arg][g] # {}
          /\ g \notin Range(ret.locations)
          /\ \E l \in Range(ret.locations) : Lower(Chars(l)) = Chars(g)

\* C10: a direct call with an empty or None text returns no locations and no
\* persons and does not invoke the language model; a post with an empty text
\* and no link title or description gets empty text_*, link_* and all_* fields.
C10_EmptyInput ==
    /\ (pc = "returned" /\ ~Truthy(arg)) =>
          /\ ret.locations = <<>>
          /\ ret.persons = <<>>
          /\ doc = <<>>
          /\ nlp_calls = 0
    /\ (pc = "appended" /\ ~Truthy(post.text) /\ ~Truthy(post.link_title)
            /\ ~Truthy(post.link_description)) =>
          /\ text_locations = <<>> /\ text_persons = <<>>
          /\ link_locations = <<>> /\ link_persons = <<>>
          /\ all_locations = <<>> /\ all_persons = <<>>
          /\ nlp_calls = 0

\* a direct call with None has returned
C10_Witness ==
    /\ pc = "returned"
    /\ arg = None
    /\ ret.fn = "extract_locations_from_text"

\* get_user_posts is at the head of one of its loops, or has returned
AtLoopHead == pc \in {"loop", "feed", "done"}

\* C11, as the code has it: with a limit that is not None, get_user_posts
\* never holds more than max(limit, 0) posts, whatever pages the feed source
\* returns; at the head of each loop posts_fetched is the number of posts
\* collected; and each request asks for min(100, limit - posts_fetched) items,
\* which is at least 1.
C11_LimitRespected ==
    /\ [](limit # <<>> =>
            /\ Len(posts) <= Max(limit[1], 0)
            /\ AtLoopHead => posts_fetched = Len(posts))
    /\ [][(limit # <<>> /\ request' # request) =>
            /\ request'.limit = Min(100, limit[1] - Len(posts))
            /\ request'.limit >= 1]_vars

\* C11, as the claim has it: the same, with never more than limit posts
C11_AtMostLimitPosts ==
    /\ [](limit # <<>> =>
            /\ Len(posts) <= limit[1]
            /\ AtLoopHead => posts_fetched = Len(posts))
    /\ [][(limit # <<>> /\ request' # request) =>
            /\ request'.limit = Min(100, limit[1] - Len(posts))
            /\ request'.limit >= 1]_vars

\* the call returned with as many posts as the limit, after a page that held
\* more items than the request asked for and after a second request for the
\* rest
C11_Witness ==
    /\ pc = "done"
    /\ limit = <<3>>
    /\ Len(posts) = 3
    /\ request.limit = 1
    /\ Len(response.feed) > request.limit

\* C12: when the load of the language model fails, the constructors raise: no
\* extractor and no scraper object exists then, every object that exists has
\* the model loaded, and self.nlp is never invoked without a loaded model.
C12_LoadFailureIsFatal ==
    /\ nlp_model = "failed" =>
          /\ pc = "raised"
          /\ location_extractor = "none"
          /\ scraper = "none"
          /\ nlp_calls = 0
    /\ (location_extractor = "constructed" \/ scraper = "constructed") =>
          nlp_model = "loaded"
    /\ (nlp_calls > 0 \/ pc \notin {"new", "raised"}) =>
          /\ nlp_model = "loaded"
          /\ location_extractor = "constructed"
          /\ scraper = "constructed"

\* the load failed and the construction of the scraper raised
C12_Witness ==
    /\ pc = "raised"
    /\ nlp_model = "failed"
    /\ scraper = "none"

\* the bounds the claim gives for the window of a span
WindowLo(s) == IF s.start - 100 > 0 THEN s.start - 100 ELSE 0
WindowHi(t, s) == IF s.end + 100 < Len(t) THEN s.end + 100 ELSE Len(t)

\* for each span of each text: the window the code takes, and the role of the
\* span when the text is cut down to the characters between the claim's bounds
window_of ==
    [t \in ExtractorTexts |->
        [s \in EntitySpans(Chars(t)) |->
            LET cut == SubSeq(t, WindowLo(s) + 1, WindowHi(t, s))
            IN  [context  |-> context_window(Chars(t), s.start, s.end),
                 cut      |-> cut,
                 cut_role |-> extract_person_role(entity_text(Chars(t), s), Chars(cut),
                                                  s.start - WindowLo(s),
                                                  s.end - WindowLo(s))]]]

\* C13: for every person of a call, the window is the text from
\* max(0, start - 100) to min(len, end + 100), lower-cased; these bounds lie in
\* the text and enclose the span; and the role is the one the window's text
\* alone gives, so nothing outside the window changes it.
C13_ContextWindow ==
    Returned =>
        \A i \in 1..Len(ret.persons) :
            LET s == span_of(person_ents(arg, doc)[i])
                w == window_of[arg][s]
            IN  /\ 0 <= WindowLo(s) /\ WindowLo(s) <= s.start
                /\ s.start <= s.end
                /\ s.end <= WindowHi(arg, s) /\ WindowHi(arg, s) <= Len(arg)
                /\ w.context = Lower(Chars(w.cut))
                /\ Len(w.context) = WindowHi(arg, s) - WindowLo(s)
                /\ ret.persons[i].role = w.cut_role

\* a person tagged Person whose text holds "Councillor" before the window
C13_Witness ==
    /\ Returned
    /\ \E i \in 1..Len(ret.persons) :
          LET s == span_of(person_ents(arg, doc)[i])
          IN  /\ WindowLo(s) > 0
              /\ ret.persons[i].role = "Person"
              /\ SubSeq(arg, 1, 10) = "Councillor"

\* a get_author_feed call is made in this step
RequestMade == request' # request

\* what the claim says of one step of the loop over the pages
PaginationStep ==
    /\ RequestMade =>
          /\ ~limit_reached
          /\ request'.cursor = cursor
          /\ page_count = 0 => cursor = None
          /\ page_count > 0 => (cursor = response.cursor /\ Truthy(cursor)
                                  /\ response.feed # <<>>)
          /\ \/ (pc' = "feed" /\ response'.feed # <<>>)
             \/ (pc' = "done" /\ (response'.feed = <<>> \/ response' = response))
    /\ (pc = "feed" /\ pc' = "loop") => Truthy(response.cursor)
    /\ (pc = "feed" /\ pc' = "done") => ~Truthy(response.cursor)
    /\ (pc = "loop" /\ pc' = "done" /\ ~RequestMade) => limit_reached
    /\ pc' = "text" => ~limit_reached

\* the posts held are the first posts received, in the order of arrival, and
\* with limit None all of them once their page is done
PostsInArrivalOrder ==
    /\ Len(posts) <= served
    /\ \A i \in 1..Len(posts) :
          posts[i].uri = i /\ posts[i].text = TimelineItem(i).text
    /\ (limit = <<>> /\ pc \in {"loop", "done"}) => Len(posts) = served

\* C14: get_user_posts makes no request once the limit is reached, returns on
\* an empty page and on a page without cursor, and asks for each further page
\* with the cursor of the page before; the posts it holds are the posts
\* received, in the order of arrival, all of them when limit is None; and, the
\* feed source ending its pages, the call returns.
C14_PaginationReturns ==
    /\ [][PaginationStep]_vars
    /\ []PostsInArrivalOrder
    /\ (pc = "loop") ~> (pc = "done")

\* with limit None the call returned after a page with a cursor and a page
\* without, holding the posts of both
C14_Witness ==
    /\ pc = "done"
    /\ limit = <<>>
    /\ page_count = 2
    /\ ~Truthy(response.cursor)
    /\ Len(posts) = served
    /\ Len(posts) > Len(response.feed)

\* the place in the role table of the first rule with the given tag: the rule
\* with the title before the name
TitleBefore(table, role) ==
    CHOOSE m \in 1..Len(table) :
        /\ table[m].role = role
        /\ \A n \in 1..Len(table) : table[n].role = role => m <= n

\* C15: a person whose name stands right after "deputy leader", with no MP,
\* Councillor or Candidate pattern matching the window and no "leader" right
\* after the name, is tagged Deputy Leader; so is a person whose name stands
\* right before "deputy leader".
C15_DeputyLeaderEffective ==
    Returned =>
        \A i \in 1..Len(ret.persons) :
            LET table == role_patterns(Lower(Chars(ret.persons[i].name)))
                hits == role_hits_of[arg][span_of(person_ents(arg, doc)[i])]
                deputy_before == TitleBefore(table, "Deputy Leader")
                leader_before == TitleBefore(table, "Leader")
            IN  (/\ \E m \in hits : table[m].role = "Deputy Leader"
                 /\ \A n \in hits : \/ table[n].role = "Deputy Leader"
                                     \/ (n = leader_before /\ deputy_before \in hits))
                => ret.persons[i].role = "Deputy Leader"

\* the roles other than Person a list of persons gives a name, in its order
specific_roles(persons, name) ==
    LET mentions == SelectSeq(persons, LAMBDA p : p.name = name /\ p.role # "Person")
    IN  [i \in 1..Len(mentions) |-> mentions[i].role]

\* C16: a name with a role other than Person in the post text has in
\* all_persons the last such role of the post text, whatever the link holds;
\* a name with none in the post text and some in the link has the first such
\* role of the link; and when each source holds the name with one role, the
\* two roles differing and neither being Person, the merge of the sources taken
\* the other way round gives the other role.
C16_SourcePrecedence ==
    pc = "appended" =>
        \A name \in names_in(all_persons) :
            LET primary == specific_roles(text_persons, name)
                secondary == specific_roles(link_persons, name)
                merged == roles_in(all_persons, name)
            IN  /\ primary # <<>> => merged = {primary[Len(primary)]}
                /\ (primary = <<>> /\ secondary # <<>>) => merged = {secondary[1]}
                /\ (/\ primary # <<>> /\ secondary # <<>>
                     /\ Cardinality(roles_in(text_persons, name)) = 1
                     /\ Cardinality(roles_in(link_persons, name)) = 1
                     /\ primary[1] # secondary[1])
                   => /\ merged = {primary[1]}
                      /\ roles_in(merge_persons(link_persons, text_persons), name)
                            = {secondary[1]}

\* the post text holds the name with two roles, the link with two, and the
\* merged role is the last of the post text, not the first of the link
C16_Witness ==
    /\ pc = "appended"
    /\ \E name \in names_in(all_persons) :
          LET primary == specific_roles(text_persons, name)
              secondary == specific_roles(link_persons, name)
          IN  /\ Len(primary) = 2 /\ primary[1] # primary[2]
              /\ Len(secondary) = 2 /\ secondary[1] # primary[2]
              /\ roles_in(all_persons, name) = {primary[2]}
====
